---- MODULE Spec2Model ----
(***************************************************************************)
(* Model of binary_search_uint64 (src/iouring_search.c): the speculative   *)
(* io_uring binary search over a file of sorted uint64_t values.           *)
(* One behaviour is one call of the function.  The file, the target and    *)
(* the three flags are the inputs; the outcomes of the system calls and of *)
(* the io_uring device are the environment's choices.                      *)
(* Spec is the call of binary_search_uint64, MmapSpec a call of            *)
(* binary_search_uint64_mmap or parallel_binary_search_uint64_mmap         *)
(* (src/mmap_search.c, src/parallel_mmap_search.c), GenSpec a call of      *)
(* create_test_file (src/common.c).                                        *)
(***************************************************************************)
EXTENDS Integers, Sequences, FiniteSets, TLC

(* ---------------- program constants ---------------- *)
PARALLEL_READS == 4
\* variant of QUEUE_DEPTH: a queue with fewer entries than a round has probes
QUEUE_DEPTH_Half == PARALLEL_READS \div 2
QUEUE_DEPTH == 64
READAHEAD_THRESHOLD == 512
LINEAR_SEARCH_THRESHOLD == 0
ParallelRangeFactor == 100

(* ---------------- bounds of the model ---------------- *)
\* small files hold 0..MaxSmallN elements
MaxSmallN == 4
\* large files hold PARALLEL_READS*100 + k elements, k in 1..BigExtra+1: the
\* first round of the smallest one runs on a range of exactly
\* PARALLEL_READS*100 and issues one probe, that of the others issues
\* PARALLEL_READS probes
BigExtra == 1
\* in large files a plateau of equal values starts at element 0, at element
\* CutStride or one element after it, or at the end of the file
CutStride == 201
\* at most MaxFail probe reads fail or come back short in one search
MaxFail == 1
\* size_t and uint64_t are WordBits wide in the mmap searches and in
\* create_test_file (64 in the build): arithmetic is modulo 2^WordBits
WordBits == 5
\* the parallel search is asked for 1..MaxThreads threads
MaxThreads == 2
\* create_test_file is asked for 0..MaxGenElements elements
MaxGenElements == 3

(* ---------------- the file ---------------- *)
\* values that occur in a file, and the searched value
Values == 0..2
Targets == {1}
\* cqe->res of a read that did not deliver 8 bytes: -EIO and a short count
FailRes == {-5, 4}
\* content of a variable that was declared but never assigned
UNINIT == -1

SmallSizes == 0..MaxSmallN
BigSizes == {PARALLEL_READS * ParallelRangeFactor + k : k \in 1..(BigExtra + 1)}
\* the file whose first round runs on a range of exactly READAHEAD_THRESHOLD;
\* its elements are all equal
EdgeSizes == {READAHEAD_THRESHOLD + 1}
Sizes == SmallSizes \cup BigSizes \cup EdgeSizes
\* byte lengths: whole elements, and two lengths that are no multiple of 8
FileSizes == {8 * n : n \in Sizes} \cup {4, 12}

Cuts(n) == IF n <= MaxSmallN THEN 0..n
           ELSE IF n \in EdgeSizes THEN {0, n}
           ELSE {0, CutStride, CutStride + 1, n}

VARIABLES
  st_size, cutA, cutB,      \* the file: its byte length and its content
  target, use_sqpoll, use_buffers, use_readahead,   \* the arguments
  pc,                       \* position in binary_search_uint64
  fd_opens, fd_closes,      \* successful open() calls, close() calls
  ring_calls,               \* results of the io_uring_queue_init* calls
  ring_inits, ring_exits,   \* devices initialised, io_uring_queue_exit calls
  buf_regs, buf_unregs,     \* successful buffer registrations, unregistrations
  sqpoll_enabled, buffers_registered,
  num_elements, lo, hi, found, target_offset, total_reads,
  reads, active_reads,
  sq, cq,                   \* prepared requests, delivered completions
  readahead_issued,         \* the current round issued the prefetch hint
  bytes_read,               \* result of the pread of the linear scan
  retval,
  term,                     \* how the search ended (which exit was taken)
  failures,                 \* number of probe reads that failed so far
  rounds,                   \* iterations of the loop that prepared probes
  scans,                    \* iterations of the loop that were a linear scan
  first_hit,                \* offset of the first completion handled in the
                            \* last batch whose value was the target, or -1
  fn,                       \* the function that is called
  mpc,                      \* position in the mmap search functions
  num_threads, created, joined,  \* threads asked for; loop indices at 142, 167
  thread_data,              \* search_thread_data_t per thread
  thr,                      \* per searcher: its position, lo, hi, last mid read
  mapped, freed,            \* the mapping exists; the two arrays were freed
  crashed,                  \* the process was killed by a memory fault
  m_found, m_target_offset, m_retval,
  gen                       \* create_test_file: position, arguments, i, file

inputs == <<st_size, cutA, cutB, target, use_sqpoll, use_buffers, use_readahead>>
resources == <<fd_opens, fd_closes, ring_calls, ring_inits, ring_exits, buf_regs,
               buf_unregs>>
search == <<num_elements, lo, hi, found, target_offset, total_reads, reads,
            active_reads, sq, cq, readahead_issued, bytes_read>>
history == <<rounds, scans, first_hit>>
\* the variables of binary_search_uint64
iovars == <<inputs, pc, resources, sqpoll_enabled, buffers_registered, search,
            retval, term, failures, history>>
\* the variables of the mmap searches and of create_test_file
mmvars == <<mpc, num_threads, created, joined, thread_data, thr, mapped, freed,
            crashed, m_found, m_target_offset, m_retval>>
others == <<fn, mmvars, gen>>
vars == <<iovars, others>>

\* element i of the file: a non-decreasing array of uint64_t
array(i) == IF i < cutA THEN 0 ELSE IF i < cutB THEN 1 ELSE 2

Slots == 0..(PARALLEL_READS - 1)

\* the descriptor is open; the device holds registered buffers
fd_open == fd_opens > fd_closes
kernel_bufs == buf_regs > buf_unregs

\* the file and the searched value
FileInit(sizes) ==
  /\ st_size \in sizes
  /\ cutA \in Cuts(st_size \div 8)
  /\ cutB \in {c \in Cuts(st_size \div 8) : c >= cutA}
  /\ target \in Targets

\* binary_search_uint64 before its first statement
IoInit ==
  /\ pc = "open"
  /\ fd_opens = 0 /\ fd_closes = 0
  /\ ring_calls = <<>> /\ ring_inits = 0 /\ ring_exits = 0
  /\ buf_regs = 0 /\ buf_unregs = 0
  /\ sqpoll_enabled = 0 /\ buffers_registered = 0
  /\ num_elements = UNINIT /\ lo = UNINIT /\ hi = UNINIT
  /\ found = 0 /\ target_offset = -1 /\ total_reads = 0
  /\ reads = [i \in Slots |-> [offset |-> UNINIT, value |-> UNINIT,
                               index |-> UNINIT, valid |-> UNINIT]]
  /\ active_reads = UNINIT
  /\ sq = <<>> /\ cq = <<>>
  /\ readahead_issued = FALSE
  /\ bytes_read = UNINIT
  /\ retval = UNINIT
  /\ term = "none"
  /\ failures = 0
  /\ rounds = 0 /\ scans = 0 /\ first_hit = -1

\* the mmap searches before their first statement
MmInit ==
  /\ mpc = "open"
  /\ created = 0 /\ joined = 0
  /\ thread_data = <<>> /\ thr = <<>>
  /\ mapped = FALSE /\ freed = FALSE /\ crashed = FALSE
  /\ m_found = 0 /\ m_target_offset = -1 /\ m_retval = UNINIT

\* create_test_file before its first statement
GenInit(n, st) ==
  gen = [pc |-> "fopen", num_elements |-> n, step |-> st, i |-> 0,
         file |-> <<>>, ret |-> UNINIT]

Init ==
  /\ FileInit(FileSizes)
  /\ use_sqpoll \in {0, 1}
  /\ use_buffers \in {0, 1}
  /\ use_readahead \in {0, 1}
  /\ IoInit
  /\ fn = "binary_search_uint64"
  /\ num_threads = 0
  /\ MmInit
  /\ GenInit(0, 0)

(* ---------------- opening and validation ---------------- *)
\* variant of EarlyReturn: the early return forgets close(fd)
EarlyReturn_NoClose(closeFd) ==
  /\ pc' = "done"
  /\ retval' = -1
  /\ term' = "IO_ERROR"
  /\ UNCHANGED fd_closes

\* an early "return -1": nothing else of the function runs
EarlyReturn(closeFd) ==
  /\ pc' = "done"
  /\ retval' = -1
  /\ term' = "IO_ERROR"
  /\ fd_closes' = IF closeFd THEN fd_closes + 1 ELSE fd_closes

\* lines 55-59: open(filepath, O_RDONLY)
OpenFile ==
  /\ pc = "open"
  /\ \E ok \in BOOLEAN :
       IF ok
       THEN /\ fd_opens' = fd_opens + 1
            /\ pc' = "validate"
            /\ UNCHANGED <<fd_closes, retval, term>>
       ELSE EarlyReturn(FALSE) /\ UNCHANGED fd_opens
  /\ UNCHANGED <<inputs, ring_calls, ring_inits, ring_exits, buf_regs, buf_unregs,
                 sqpoll_enabled, buffers_registered, search, failures, history>>
  /\ UNCHANGED others

\* variant of Aligned: the length of the file is not checked
Aligned_Unchecked(sz) == TRUE

\* line 69: the byte length is a whole number of uint64_t
Aligned(sz) == sz % 8 = 0

\* lines 61-96: fstat, size check, fadvise, element count, lo and hi
ValidateFile ==
  /\ pc = "validate"
  /\ \E fstat_ok \in BOOLEAN, fadvise_ok \in BOOLEAN :
       IF /\ fstat_ok
          /\ Aligned(st_size)
          /\ fadvise_ok
          /\ st_size \div 8 # 0
       THEN /\ num_elements' = st_size \div 8
            /\ lo' = 0
            /\ hi' = (st_size \div 8) - 1
            /\ pc' = "ring_init"
            /\ UNCHANGED <<fd_closes, retval, term>>
       ELSE /\ EarlyReturn(TRUE)
            /\ num_elements' = IF fstat_ok /\ Aligned(st_size) /\ fadvise_ok
                               THEN st_size \div 8 ELSE num_elements
            /\ UNCHANGED <<lo, hi>>
  /\ UNCHANGED <<inputs, fd_opens, ring_calls, ring_inits, ring_exits, buf_regs,
                 buf_unregs, sqpoll_enabled, buffers_registered, found, target_offset,
                 total_reads, reads, active_reads, sq, cq, readahead_issued,
                 bytes_read, failures, history>>
  /\ UNCHANGED others

(* ---------------- the device ---------------- *)
\* lines 98-133: io_uring_queue_init_params with SQPOLL, falling back to
\* io_uring_queue_init; sqpoll_ok and std_ok are the results of the two calls
InitRing ==
  /\ pc = "ring_init"
  /\ \E sqpoll_ok \in BOOLEAN, std_ok \in BOOLEAN :
       IF use_sqpoll = 1 /\ sqpoll_ok
       THEN /\ ring_calls' = <<[sqpoll |-> TRUE, ok |-> TRUE]>>
            /\ sqpoll_enabled' = 1
            /\ ring_inits' = ring_inits + 1
            /\ pc' = "register"
            /\ UNCHANGED <<fd_closes, retval, term>>
       ELSE /\ ring_calls' = IF use_sqpoll = 1
                             THEN <<[sqpoll |-> TRUE, ok |-> FALSE],
                                    [sqpoll |-> FALSE, ok |-> std_ok]>>
                             ELSE <<[sqpoll |-> FALSE, ok |-> std_ok]>>
            /\ IF std_ok
               THEN /\ sqpoll_enabled' = 0
                    /\ ring_inits' = ring_inits + 1
                    /\ pc' = "register"
                    /\ UNCHANGED <<fd_closes, retval, term>>
               ELSE /\ EarlyReturn(TRUE)
                    /\ UNCHANGED <<sqpoll_enabled, ring_inits>>
  /\ UNCHANGED <<inputs, fd_opens, ring_exits, buf_regs, buf_unregs,
                 buffers_registered, search, failures, history>>
  /\ UNCHANGED others

\* lines 135-161: clear the valid flags, io_uring_register_buffers
RegisterBuffers ==
  /\ pc = "register"
  /\ reads' = [i \in Slots |-> [reads[i] EXCEPT !.valid = 0]]
  /\ \E reg_ok \in BOOLEAN :
       IF use_buffers = 1 /\ reg_ok
       THEN buffers_registered' = 1 /\ buf_regs' = buf_regs + 1
       ELSE buffers_registered' = 0 /\ UNCHANGED buf_regs
  /\ pc' = "loop"
  /\ UNCHANGED <<inputs, fd_opens, fd_closes, ring_calls, ring_inits, ring_exits,
                 buf_unregs, sqpoll_enabled, num_elements, lo, hi, found,
                 target_offset, total_reads, active_reads, sq, cq,
                 readahead_issued, bytes_read, retval, term, failures, history>>
  /\ UNCHANGED others

(* ---------------- one round: scheduling ---------------- *)
Min(a, b) == IF a < b THEN a ELSE b

\* variant of ActiveReads: PARALLEL_READS probes from a range of
\* PARALLEL_READS*100 on
ActiveReads_Inclusive(range) ==
  IF range >= PARALLEL_READS * ParallelRangeFactor THEN PARALLEL_READS ELSE 1

\* lines 223-228: number of probes of a round over an interval of this range
ActiveReads(range) ==
  IF range > PARALLEL_READS * ParallelRangeFactor THEN PARALLEL_READS ELSE 1

\* variant of Step: the minimum step is taken for every range
Step_Unit(range, active) == 1

\* variant of Step: no minimum step
Step_NoMin(range, active) == range \div (active + 1)

\* lines 230-231: distance between two probes
Step(range, active) ==
  LET s == range \div (active + 1) IN IF s = 0 THEN 1 ELSE s

\* variant of IndexPos: the probe index is not clamped to hi
IndexPos_NoClamp(l, h, i) ==
  l + Step(h - l, ActiveReads(h - l)) * (i + 1)

\* lines 236-237: element index of probe i
IndexPos(l, h, i) ==
  LET a == ActiveReads(h - l)
      p == l + Step(h - l, a) * (i + 1)
  IN IF p > h THEN h ELSE p

\* lines 250-261: the request prepared for slot i; user_data is the slot
\* variant of UseFixedRead: fixed reads whenever buffers were requested
UseFixedRead_Requested == use_buffers = 1

\* line 251: the read uses a registered buffer
UseFixedRead == buffers_registered = 1

PrepSqe(i, off) ==
  [slot |-> i, fixed |-> UseFixedRead, offset |-> off]

\* variant of PreparedSlot: the valid flag of the slot is not cleared
PreparedSlot_KeepValid(old, off, i) ==
  [offset |-> off, value |-> old.value, index |-> i, valid |-> old.valid]

\* lines 239-241: slot i as the loop at 234 leaves it; the buffer keeps what
\* it held
PreparedSlot(old, off, i) ==
  [offset |-> off, value |-> old.value, index |-> i, valid |-> 0]

\* line 169: the round is a linear scan
LinearRound == use_readahead = 1 /\ hi - lo <= LINEAR_SEARCH_THRESHOLD

\* variant of LoopExit: returns from the loop without the teardown
LoopExit_NoTeardown ==
  /\ pc = "loop"
  /\ ~(lo <= hi)
  /\ pc' = "done"
  /\ term' = "NOT_FOUND"
  /\ retval' = -1
  /\ UNCHANGED <<inputs, resources, sqpoll_enabled, buffers_registered,
                 search, failures, history>>
  /\ UNCHANGED others

\* line 164, loop guard false: the loop ends without a hit
LoopExit ==
  /\ pc = "loop"
  /\ ~(lo <= hi)
  /\ pc' = "cleanup"
  /\ term' = "NOT_FOUND"
  /\ UNCHANGED <<inputs, resources, sqpoll_enabled, buffers_registered,
                 search, retval, failures, history>>
  /\ UNCHANGED others

\* variant of ScanFirst: the scan starts at the second element
ScanFirst_SkipHead(buffer, range) ==
  LET hits == {i \in 1..range : buffer[i] = target}
  IN IF hits = {} THEN -1 ELSE CHOOSE i \in hits : \A j \in hits : i <= j

\* lines 189-196: the first i in 0..range with buffer[i] = target, -1 when
\* the loop ends without one
ScanFirst(buffer, range) ==
  LET hits == {i \in 0..range : buffer[i] = target}
  IN IF hits = {} THEN -1 ELSE CHOOSE i \in hits : \A j \in hits : i <= j

\* lines 169-201: read [lo, hi] with one pread and scan it
\* nread = elements the pread returned; garbage = what malloc'd memory holds
\* beyond them
LinearScan ==
  /\ pc = "loop"
  /\ lo <= hi
  /\ LinearRound
  /\ \E malloc_ok \in BOOLEAN, br \in {-1} \cup {8 * k : k \in 0..(hi - lo + 1)},
        garbage \in [0..(hi - lo) -> Values] :
       IF ~malloc_ok \/ br < 0
       THEN /\ term' = "IO_ERROR"
            /\ bytes_read' = IF malloc_ok THEN br ELSE bytes_read
            /\ UNCHANGED <<found, target_offset>>
       ELSE LET buffer == [i \in 0..(hi - lo) |->
                             IF i < br \div 8 THEN array(lo + i) ELSE garbage[i]]
                first == ScanFirst(buffer, hi - lo)
            IN /\ bytes_read' = br
               /\ IF first >= 0
                  THEN /\ found' = 1
                       /\ target_offset' = (lo + first) * 8
                       /\ term' = "FOUND"
                  ELSE /\ UNCHANGED <<found, target_offset>>
                       /\ term' = "NOT_FOUND"
  /\ pc' = "cleanup"
  /\ scans' = scans + 1
  /\ UNCHANGED <<inputs, resources, sqpoll_enabled, buffers_registered,
                 num_elements, lo, hi, total_reads, reads, active_reads, sq,
                 cq, readahead_issued, retval, failures, rounds, first_hit>>
  /\ UNCHANGED others

\* lines 164-265: loop guard true, prefetch hint, choice of the probes and
\* preparation of one read request per probe; the result of the hint
\* (posix_fadvise, line 210) only selects the message that is printed
\* io_uring_get_sqe returns NULL when the submission queue holds QUEUE_DEPTH
\* requests that were not submitted yet
PrepareReads ==
  /\ pc = "loop"
  /\ lo <= hi
  /\ ~LinearRound
  /\ LET range == hi - lo
         active == ActiveReads(range)
         room == QUEUE_DEPTH - Len(sq)
         nprep == Min(active, room)
         \* iterations of the loop at 234 that wrote their slot
         touched == IF room < active THEN 0..nprep ELSE 0..(active - 1)
     IN /\ readahead_issued' = (use_readahead = 1 /\ range <= READAHEAD_THRESHOLD)
        /\ active_reads' = active
        /\ reads' = [i \in Slots |->
                       IF i \in touched
                       THEN PreparedSlot(reads[i], IndexPos(lo, hi, i) * 8, i)
                       ELSE reads[i]]
        /\ sq' = sq \o [k \in 1..nprep |-> PrepSqe(k - 1, IndexPos(lo, hi, k - 1) * 8)]
        /\ IF room < active
           THEN /\ pc' = "cleanup"
                /\ term' = "IO_ERROR"
                /\ UNCHANGED total_reads
           ELSE /\ pc' = "submit"
                /\ total_reads' = total_reads + active
                /\ UNCHANGED term
  /\ rounds' = rounds + 1
  /\ UNCHANGED <<inputs, resources, sqpoll_enabled, buffers_registered,
                 num_elements, lo, hi, found, target_offset, cq, bytes_read,
                 retval, failures, scans, first_hit>>
  /\ UNCHANGED others

(* ---------------- one round: the device ---------------- *)
\* orders in which the device can deliver n completions
Perms(n) == {p \in [1..n -> 1..n] : \A i, j \in 1..n : i # j => p[i] # p[j]}
Orders == [n \in 0..PARALLEL_READS |-> Perms(n)]

\* results the device can give to a request: 8 bytes, or a failure; a fixed
\* read without registered buffers fails with -EFAULT, a read at or beyond
\* the end of the file returns 0 bytes
ReadResults(sqe) ==
  IF sqe.fixed /\ ~kernel_bufs THEN {-14}
  ELSE IF sqe.offset + 8 > st_size THEN {0}
  ELSE {8} \cup FailRes

\* content of an 8-byte buffer after a read with result res of element v:
\* a full read stores v, a short read of 4 bytes stores the low half of v
\* (the file's values fit in it) over whatever the buffer held
BufferAfter(old, res, v) ==
  IF res = 8 THEN v
  ELSE IF res = 4 /\ old # UNINIT THEN v
  ELSE old

\* lines 268-272: io_uring_submit_and_wait(&ring, active_reads)
\* on success every prepared request was executed by the device and its
\* completion is in the completion queue; the order in which the device put
\* them there is chosen where they are read (ProcessCompletions)
SubmitAndWait ==
  /\ pc = "submit"
  /\ \E submit_ok \in BOOLEAN :
       IF ~submit_ok
       THEN /\ pc' = "cleanup"
            /\ term' = "IO_ERROR"
            /\ UNCHANGED <<reads, sq, cq, failures>>
       ELSE \E failing \in SUBSET (1..Len(sq)) :
            \E kind \in [failing -> FailRes] :
              LET Res(k) == IF Cardinality(ReadResults(sq[k])) = 1
                            THEN CHOOSE r \in ReadResults(sq[k]) : TRUE
                            ELSE IF k \in failing THEN kind[k] ELSE 8
                  SlotReq(i) == {k \in 1..Len(sq) : sq[k].slot = i}
              IN /\ failures + Cardinality(failing) <= MaxFail
                 /\ failures' = failures + Cardinality(failing)
                 /\ reads' = [i \in Slots |->
                      IF SlotReq(i) = {} THEN reads[i]
                      ELSE LET k == CHOOSE k \in SlotReq(i) : TRUE
                           IN [reads[i] EXCEPT !.value =
                                 BufferAfter(@, Res(k), array(sq[k].offset \div 8))]]
                 /\ cq' = cq \o [n \in 1..Len(sq) |->
                                   [slot |-> sq[n].slot, res |-> Res(n)]]
                 /\ sq' = <<>>
                 /\ pc' = "reap"
                 /\ UNCHANGED term
  /\ UNCHANGED <<inputs, resources, sqpoll_enabled, buffers_registered,
                 num_elements, lo, hi, found, target_offset, total_reads,
                 active_reads, readahead_issued, bytes_read, retval, history>>
  /\ UNCHANGED others

(* ---------------- one round: completions and narrowing ---------------- *)
\* variant of HandleCqes: the result of the read is not checked
RECURSIVE HandleCqes_NoResCheck(_, _, _)
HandleCqes_NoResCheck(cqs, st, g) ==
  IF cqs = <<>> THEN st
  ELSE LET cqe == Head(cqs)
           data == st.reads[cqe.slot]
           val == IF data.value = UNINIT THEN g ELSE data.value
           st1 == [reads |-> [st.reads EXCEPT ![cqe.slot].valid = 1],
                   found |-> IF val = target THEN 1 ELSE st.found,
                   target_offset |-> IF val = target THEN data.offset
                                     ELSE st.target_offset]
       IN HandleCqes_NoResCheck(Tail(cqs), st1, g)

\* variant of HandleCqes: a completion is attributed to the slot of its
\* position in the batch (counted from the end), not to its user data
RECURSIVE HandleCqes_ByPosition(_, _, _)
HandleCqes_ByPosition(cqs, st, g) ==
  IF cqs = <<>> THEN st
  ELSE LET cqe == Head(cqs)
           slot == Len(cqs) - 1
           data == st.reads[slot]
           val == IF data.value = UNINIT THEN g ELSE data.value
           st1 == IF cqe.res = 8
                  THEN [reads |-> [st.reads EXCEPT ![slot].valid = 1],
                        found |-> IF val = target THEN 1 ELSE st.found,
                        target_offset |-> IF val = target THEN data.offset
                                          ELSE st.target_offset]
                  ELSE st
       IN HandleCqes_ByPosition(Tail(cqs), st1, g)

\* lines 280-300: the completions cqs are handled in order; st is the record
\* of reads, found and target_offset; g is what an unassigned buffer holds
RECURSIVE HandleCqes(_, _, _)
HandleCqes(cqs, st, g) ==
  IF cqs = <<>> THEN st
  ELSE LET cqe == Head(cqs)
           data == st.reads[cqe.slot]
           val == IF data.value = UNINIT THEN g ELSE data.value
           st1 == IF cqe.res = 8
                  THEN [reads |-> [st.reads EXCEPT ![cqe.slot].valid = 1],
                        found |-> IF val = target THEN 1 ELSE st.found,
                        target_offset |-> IF val = target THEN data.offset
                                          ELSE st.target_offset]
                  ELSE st
       IN HandleCqes(Tail(cqs), st1, g)

\* variant of Narrow: the two directions of the comparison are exchanged
RECURSIVE Narrow_Swapped(_, _, _, _, _, _)
Narrow_Swapped(i, active, rd, nlo, nhi, g) ==
  IF i >= active THEN [new_lo |-> nlo, new_hi |-> nhi, found |-> 0, target_offset |-> -1]
  ELSE IF rd[i].valid = 0 THEN Narrow_Swapped(i + 1, active, rd, nlo, nhi, g)
  ELSE LET elem_idx == rd[i].offset \div 8
           val == IF rd[i].value = UNINIT THEN g ELSE rd[i].value
       IN IF val = target
          THEN [new_lo |-> nlo, new_hi |-> nhi, found |-> 1,
                target_offset |-> rd[i].offset]
          ELSE IF val > target
          THEN Narrow_Swapped(i + 1, active, rd,
                      IF elem_idx + 1 > nlo THEN elem_idx + 1 ELSE nlo, nhi, g)
          ELSE Narrow_Swapped(i + 1, active, rd, nlo,
                      IF elem_idx - 1 < nhi THEN elem_idx - 1 ELSE nhi, g)

\* variant of Narrow: a probe above the target sets new_hi to its own index
RECURSIVE Narrow_HiKeep(_, _, _, _, _, _)
Narrow_HiKeep(i, active, rd, nlo, nhi, g) ==
  IF i >= active THEN [new_lo |-> nlo, new_hi |-> nhi, found |-> 0, target_offset |-> -1]
  ELSE IF rd[i].valid = 0 THEN Narrow_HiKeep(i + 1, active, rd, nlo, nhi, g)
  ELSE LET elem_idx == rd[i].offset \div 8
           val == IF rd[i].value = UNINIT THEN g ELSE rd[i].value
       IN IF val = target
          THEN [new_lo |-> nlo, new_hi |-> nhi, found |-> 1,
                target_offset |-> rd[i].offset]
          ELSE IF val < target
          THEN Narrow_HiKeep(i + 1, active, rd,
                      IF elem_idx + 1 > nlo THEN elem_idx + 1 ELSE nlo, nhi, g)
          ELSE Narrow_HiKeep(i + 1, active, rd, nlo,
                      IF elem_idx < nhi THEN elem_idx ELSE nhi, g)

\* variant of Narrow: slots are used whether or not their read was valid
RECURSIVE Narrow_NoValid(_, _, _, _, _, _)
Narrow_NoValid(i, active, rd, nlo, nhi, g) ==
  IF i >= active THEN [new_lo |-> nlo, new_hi |-> nhi, found |-> 0, target_offset |-> -1]
  ELSE LET elem_idx == rd[i].offset \div 8
           val == IF rd[i].value = UNINIT THEN g ELSE rd[i].value
       IN IF val = target
          THEN [new_lo |-> nlo, new_hi |-> nhi, found |-> 1,
                target_offset |-> rd[i].offset]
          ELSE IF val < target
          THEN Narrow_NoValid(i + 1, active, rd,
                      IF elem_idx + 1 > nlo THEN elem_idx + 1 ELSE nlo, nhi, g)
          ELSE Narrow_NoValid(i + 1, active, rd, nlo,
                      IF elem_idx - 1 < nhi THEN elem_idx - 1 ELSE nhi, g)

\* variant of Narrow: a probe below the target sets new_lo to its own index
RECURSIVE Narrow_LoKeep(_, _, _, _, _, _)
Narrow_LoKeep(i, active, rd, nlo, nhi, g) ==
  IF i >= active THEN [new_lo |-> nlo, new_hi |-> nhi, found |-> 0, target_offset |-> -1]
  ELSE IF rd[i].valid = 0 THEN Narrow_LoKeep(i + 1, active, rd, nlo, nhi, g)
  ELSE LET elem_idx == rd[i].offset \div 8
           val == IF rd[i].value = UNINIT THEN g ELSE rd[i].value
       IN IF val = target
          THEN [new_lo |-> nlo, new_hi |-> nhi, found |-> 1,
                target_offset |-> rd[i].offset]
          ELSE IF val < target
          THEN Narrow_LoKeep(i + 1, active, rd,
                      IF elem_idx > nlo THEN elem_idx ELSE nlo, nhi, g)
          ELSE Narrow_LoKeep(i + 1, active, rd, nlo,
                      IF elem_idx - 1 < nhi THEN elem_idx - 1 ELSE nhi, g)

\* lines 314-337: slots i..active-1 narrow the interval [nlo, nhi]
RECURSIVE Narrow(_, _, _, _, _, _)
Narrow(i, active, rd, nlo, nhi, g) ==
  IF i >= active THEN [new_lo |-> nlo, new_hi |-> nhi, found |-> 0, target_offset |-> -1]
  ELSE IF rd[i].valid = 0 THEN Narrow(i + 1, active, rd, nlo, nhi, g)
  ELSE LET elem_idx == rd[i].offset \div 8
           val == IF rd[i].value = UNINIT THEN g ELSE rd[i].value
       IN IF val = target
          THEN [new_lo |-> nlo, new_hi |-> nhi, found |-> 1,
                target_offset |-> rd[i].offset]
          ELSE IF val < target
          THEN Narrow(i + 1, active, rd,
                      IF elem_idx + 1 > nlo THEN elem_idx + 1 ELSE nlo, nhi, g)
          ELSE Narrow(i + 1, active, rd, nlo,
                      IF elem_idx - 1 < nhi THEN elem_idx - 1 ELSE nhi, g)

\* variant of CqAdvance: the completions are not marked as seen
CqAdvance_None(q, count) == q

\* line 303: io_uring_cq_advance(&ring, count)
CqAdvance(q, count) == SubSeq(q, count + 1, Len(q))

\* the offset of the first completion of cqs that delivered the target into
\* its slot of rd, -1 when there is none (lines 280-296, the first iteration
\* that takes the branch at 292)
RECURSIVE FirstHit(_, _, _)
FirstHit(cqs, rd, g) ==
  IF cqs = <<>> THEN -1
  ELSE LET data == rd[Head(cqs).slot]
           val == IF data.value = UNINIT THEN g ELSE data.value
       IN IF Head(cqs).res = 8 /\ val = target THEN data.offset
          ELSE FirstHit(Tail(cqs), rd, g)

\* lines 274-343: io_uring_peek_batch_cqe, the completions, io_uring_cq_advance,
\* then either the hit or the new interval
ProcessCompletions ==
  /\ pc = "reap"
  /\ LET count == Min(active_reads, Len(cq))
         \* what an unassigned buffer of this round can hold
         garbage == IF \E i \in 0..(active_reads - 1) : reads[i].value = UNINIT
                    THEN Values ELSE {0}
     IN \E g \in garbage, order \in Orders[count] :
       LET batch == [n \in 1..count |-> cq[order[n]]]
           st == HandleCqes(batch,
                            [reads |-> reads, found |-> found,
                             target_offset |-> target_offset], g)
           nw == Narrow(0, active_reads, st.reads, lo, hi, g)
       IN /\ cq' = CqAdvance(cq, count)
          /\ first_hit' = FirstHit(batch, reads, g)
          /\ reads' = st.reads
          /\ IF st.found = 1
             THEN /\ found' = 1
                  /\ target_offset' = st.target_offset
                  /\ pc' = "cleanup"
                  /\ term' = "FOUND"
                  /\ UNCHANGED <<lo, hi>>
             ELSE IF nw.found = 1
             THEN /\ found' = 1
                  /\ target_offset' = nw.target_offset
                  /\ pc' = "cleanup"
                  /\ term' = "FOUND"
                  /\ UNCHANGED <<lo, hi>>
             ELSE /\ lo' = nw.new_lo
                  /\ hi' = nw.new_hi
                  /\ pc' = "loop"
                  /\ UNCHANGED <<found, target_offset, term>>
  /\ UNCHANGED <<inputs, resources, sqpoll_enabled, buffers_registered,
                 num_elements, total_reads, active_reads, sq, readahead_issued,
                 bytes_read, retval, failures, rounds, scans>>
  /\ UNCHANGED others

(* ---------------- teardown ---------------- *)
\* line 380: the value returned for a given found
ReturnCode(f) == IF f = 1 THEN 0 ELSE -1

\* lines 349-380: unregister, io_uring_queue_exit, close, report, return
Cleanup ==
  /\ pc = "cleanup"
  /\ IF buffers_registered = 1
     THEN buf_unregs' = buf_unregs + 1
     ELSE UNCHANGED buf_unregs
  /\ ring_exits' = ring_exits + 1
  /\ fd_closes' = fd_closes + 1
  /\ retval' = ReturnCode(found)
  /\ pc' = "done"
  /\ UNCHANGED <<inputs, fd_opens, ring_calls, ring_inits, buf_regs,
                 sqpoll_enabled, buffers_registered, search, term, failures,
                 history>>
  /\ UNCHANGED others

Next ==
  \/ OpenFile
  \/ ValidateFile
  \/ InitRing
  \/ RegisterBuffers
  \/ LoopExit
  \/ LinearScan
  \/ PrepareReads
  \/ SubmitAndWait
  \/ ProcessCompletions
  \/ Cleanup

Spec == Init /\ [][Next]_vars

(* ---------------- the search as a function ---------------- *)
Max(a, b) == IF a > b THEN a ELSE b

\* positions the probes of a round over [l, h] read (lines 234-239)
ProbeSet(l, h) == {IndexPos(l, h, i) : i \in 0..(ActiveReads(h - l) - 1)}

\* lines 164-347 when every read delivers its bytes: the outcomes the search
\* over [l, h] can end with; a round in which several probes hit reports the
\* probe whose completion is handled last
RECURSIVE RefSearch(_, _)
RefSearch(l, h) ==
  IF l > h THEN {[found |-> 0, target_offset |-> -1]}
  ELSE IF use_readahead = 1 /\ h - l <= LINEAR_SEARCH_THRESHOLD
  THEN LET hits == {i \in l..h : array(i) = target}
       IN IF hits = {} THEN {[found |-> 0, target_offset |-> -1]}
          ELSE {[found |-> 1,
                 target_offset |-> 8 * (CHOOSE i \in hits : \A j \in hits : i <= j)]}
  ELSE LET probes == ProbeSet(l, h)
           hits == {p \in probes : array(p) = target}
           below == {p \in probes : array(p) < target}
           above == {p \in probes : array(p) > target}
           nlo == IF below = {} THEN l
                  ELSE Max(l, 1 + CHOOSE p \in below : \A q \in below : q <= p)
           nhi == IF above = {} THEN h
                  ELSE Min(h, (CHOOSE p \in above : \A q \in above : p <= q) - 1)
       IN IF hits # {} THEN {[found |-> 1, target_offset |-> 8 * p] : p \in hits}
          ELSE RefSearch(nlo, nhi)

(* ---------------- vocabulary of the properties ---------------- *)
\* the target occurs in the file
TargetPresent == \E i \in 0..((st_size \div 8) - 1) : array(i) = target

\* the pread of the linear scan returned fewer bytes than requested
BulkShort == bytes_read # UNINIT /\ bytes_read >= 0 /\ bytes_read < 8 * (hi - lo + 1)

\* the search ran to its end and every read, probe or bulk, delivered its bytes
CleanRun == pc = "done" /\ term # "IO_ERROR" /\ failures = 0 /\ ~BulkShort

\* number of elements of the interval [lo, hi]
Width == IF hi < lo THEN 0 ELSE hi - lo + 1

\* a measure of the work left: the part of the function still to run, and in
\* the loop the width of the interval plus the reads that may still fail;
\* a round whose reads all failed is repeated with the same interval
Rank ==
  LET top == 10 + 3 * ((st_size \div 8) + MaxFail + 1)
      left == Width + (MaxFail - failures)
  IN CASE pc = "done" -> 0
       [] pc = "cleanup" -> 1
       [] pc = "loop" -> 2 + 3 * left + 2
       [] pc = "submit" -> 2 + 3 * left + 1
       [] pc = "reap" -> 2 + 3 * left
                         + (IF \E k \in 1..Len(cq) : cq[k].res = 8 THEN 0 ELSE 3)
       [] pc = "register" -> top
       [] pc = "ring_init" -> top + 1
       [] pc = "validate" -> top + 2
       [] pc = "open" -> top + 3

\* before its end the function can always take a step (ProcessCompletions
\* has no condition besides its position)
CanStep ==
  \/ pc \in {"done", "reap"}
  \/ ENABLED (OpenFile \/ ValidateFile \/ InitRing \/ RegisterBuffers \/ LoopExit
                \/ LinearScan \/ PrepareReads \/ SubmitAndWait \/ Cleanup)

\* every step brings the function nearer to its end, and the function stops
\* only at its end: the call returns when its steps are not postponed forever
Terminates == [][Rank' < Rank]_vars /\ [](Rank >= 0 /\ CanStep)

OpeningPcs == {"validate", "ring_init", "register"}
SearchingPcs == {"loop", "submit", "reap"}

(* ======================= properties ======================= *)

\* C1: when the target occurs in the file and every read delivered its
\* bytes, the search ends with found = 1 and target_offset = 8*i for an
\* index i of the file with array[i] = target, whatever the three flags are.
C1_FoundWhenPresent ==
  (CleanRun /\ TargetPresent) =>
     /\ found = 1
     /\ target_offset % 8 = 0
     /\ target_offset \div 8 \in 0..(num_elements - 1)
     /\ array(target_offset \div 8) = target

\* C1 witness: a large file with a run of duplicates of the target, found
\* after a round of PARALLEL_READS probes, with all three flags set
C1_Witness ==
  /\ CleanRun /\ found = 1 /\ TargetPresent
  /\ num_elements > PARALLEL_READS * ParallelRangeFactor + 1
  /\ cutB - cutA > 1
  /\ use_sqpoll = 1 /\ use_buffers = 1 /\ use_readahead = 1

\* a search for a target that is not in the file does not report it found
C2_AbsentNotFound ==
  (pc = "done" /\ term # "IO_ERROR" /\ ~TargetPresent) => found = 0

\* C2: when the target does not occur in the file the search loop ends and
\* the search ends with found = 0.
C2_NotFoundWhenAbsent == Terminates /\ []C2_AbsentNotFound

\* C3 as stated: every round that goes on to a next round makes the interval
\* strictly narrower, whatever the results of its probe reads.
C3_StrictShrinkAlways ==
  [][(pc = "reap" /\ pc' = "loop") => hi' - lo' < hi - lo]_vars

\* C3 amended: a round that goes on to a next round makes the interval
\* strictly narrower when at least one of its probe reads delivered 8 bytes,
\* and leaves lo and hi unchanged when all of them failed.
C3_ShrinkWhenValid ==
  [][(pc = "reap" /\ pc' = "loop") =>
       IF \E i \in 0..(active_reads - 1) : reads'[i].valid = 1
       THEN hi' - lo' < hi - lo
       ELSE lo' = lo /\ hi' = hi]_vars

\* C3 witness: the first round of a large file ended with one of its four
\* reads failed and a narrower interval
C3_Witness ==
  /\ pc = "loop" /\ total_reads = PARALLEL_READS /\ failures = 1
  /\ hi - lo < num_elements - 1

\* C4: at the start of every round every index holding the target lies in
\* [lo, hi], also after rounds with failed reads; the loop is not left with
\* lo > hi while the target is in the file.
C4_TargetInInterval ==
  /\ pc = "loop" =>
       \A i \in 0..(num_elements - 1) : array(i) = target => (lo <= i /\ i <= hi)
  /\ (pc = "cleanup" /\ term = "NOT_FOUND" /\ lo > hi) => ~TargetPresent

\* C4 witness: a round starts after a failed read and after the interval
\* was narrowed on both sides, the target being in the file
C4_Witness ==
  /\ pc = "loop" /\ failures >= 1 /\ TargetPresent
  /\ lo > 0 /\ hi < num_elements - 1 /\ lo <= hi

\* while a round runs the interval and the prepared probes are in the file
C5_RoundInBounds ==
  pc \in {"submit", "reap"} =>
     /\ 0 <= lo /\ lo <= hi /\ hi <= num_elements - 1
     /\ \A k \in 1..Len(sq) :
          /\ sq[k].offset % 8 = 0
          /\ lo <= sq[k].offset \div 8 /\ sq[k].offset \div 8 <= hi
          /\ 0 <= sq[k].offset /\ sq[k].offset <= 8 * (num_elements - 1)
     /\ \A i \in 0..(active_reads - 1) :
          lo <= reads[i].offset \div 8 /\ reads[i].offset \div 8 <= hi

\* a step of the search loop never widens the interval
C5_Monotone == pc \in SearchingPcs => (lo <= lo' /\ hi' <= hi)

\* C5: while a round runs 0 <= lo <= hi <= N-1 and every scheduled probe
\* reads inside [lo, hi], hence inside the file; from round to round lo never
\* decreases and hi never increases.
C5_BoundsAndProbes == []C5_RoundInBounds /\ [][C5_Monotone]_vars

\* C5 witness: PARALLEL_READS probes are prepared
C5_Witness == pc = "submit" /\ Len(sq) = PARALLEL_READS

\* C6: the descriptor is closed exactly once when it was opened, the device
\* is released exactly once when it was initialised and never otherwise, and
\* buffers are unregistered exactly when they were registered.
C6_Teardown ==
  /\ fd_closes <= fd_opens /\ ring_exits <= ring_inits /\ buf_unregs <= buf_regs
  /\ fd_opens <= 1 /\ ring_inits <= 1 /\ buf_regs <= 1
  /\ pc = "done" =>
       /\ fd_closes = fd_opens
       /\ ring_exits = ring_inits
       /\ buf_unregs = buf_regs
  /\ buffers_registered = 1 <=> buf_regs = 1

\* C6 witness: a search that registered buffers and was aborted has ended
C6_Witness ==
  /\ pc = "done" /\ term = "IO_ERROR"
  /\ fd_opens = 1 /\ ring_inits = 1 /\ buf_regs = 1

Terminals == {"FOUND", "NOT_FOUND", "IO_ERROR"}

\* steps out of SEARCHING, of a terminal state and of CLOSED
C7_SearchSteps ==
  /\ pc \in SearchingPcs =>
       \/ pc' \in SearchingPcs /\ term' = "none"
       \/ pc' = "cleanup" /\ term' \in Terminals
  /\ (pc = "loop" /\ pc' \in SearchingPcs) => (lo <= hi /\ found = 0)
  /\ (pc = "reap" /\ pc' \in SearchingPcs) => found' = 0
  /\ pc = "cleanup" => pc' = "done"
  /\ term # "none" =>
       /\ term' = term
       /\ UNCHANGED <<sq, cq, total_reads, reads, active_reads, lo, hi>>
  /\ pc # "done"

\* steps out of INIT and OPENING when every search has to pass SEARCHING
C7_OpenStepsStrict ==
  /\ pc = "open" => (pc' = "validate" /\ term' = "none")
  /\ pc \in OpeningPcs => (pc' \in OpeningPcs \cup {"loop"} /\ term' = "none")

\* steps out of INIT and OPENING: a failure there ends the search in IO_ERROR
C7_OpenSteps ==
  /\ pc = "open" =>
       \/ pc' = "validate" /\ term' = "none"
       \/ pc' = "done" /\ term' = "IO_ERROR"
  /\ pc \in OpeningPcs =>
       \/ pc' \in OpeningPcs \cup {"loop"} /\ term' = "none"
       \/ pc' = "done" /\ term' = "IO_ERROR"

\* CLOSED: one terminal state was reached and everything acquired is released
C7_Closed ==
  pc = "done" =>
     /\ term \in Terminals
     /\ (term = "FOUND" <=> found = 1)
     /\ fd_closes = fd_opens /\ ring_exits = ring_inits /\ buf_unregs = buf_regs
     /\ sq = <<>> \/ term = "IO_ERROR"

\* C7 as stated: every search goes INIT -> OPENING -> SEARCHING -> one of
\* FOUND, NOT_FOUND, IO_ERROR -> CLOSED.
C7_LifecycleAsStated ==
  [][C7_OpenStepsStrict /\ C7_SearchSteps]_vars /\ []C7_Closed

\* C7 amended: every search goes INIT -> OPENING -> SEARCHING -> one of
\* FOUND, NOT_FOUND, IO_ERROR -> CLOSED, except that a failure in INIT or
\* OPENING ends it in IO_ERROR without SEARCHING; SEARCHING repeats only
\* while lo <= hi and found = 0; after the terminal state no probe is
\* scheduled or submitted; CLOSED follows every terminal state.
C7_Lifecycle ==
  [][C7_OpenSteps /\ C7_SearchSteps]_vars /\ []C7_Closed

\* C7 witness: a search that found the target after more than one round is closed
C7_Witness ==
  pc = "done" /\ term = "FOUND" /\ total_reads > PARALLEL_READS

\* C8: an aborted search returns a value different from the one returned
\* when the target is absent.
C8_ErrorDistinct ==
  (pc = "done" /\ term = "IO_ERROR") => retval # ReturnCode(0)

\* a failed probe read leads to the handling of the completions, and the
\* handling of completions goes on to the next round or to the hit
C9_NoAbort ==
  /\ failures' > failures => (pc' = "reap" /\ term' = "none")
  /\ pc = "reap" =>
       \/ pc' = "loop" /\ term' = "none"
       \/ pc' = "cleanup" /\ term' = "FOUND"

\* a search with failed probe reads reports found exactly when the search
\* without failed reads does
C9_SameResult ==
  (pc = "done" /\ term # "IO_ERROR" /\ ~BulkShort /\ failures > 0) =>
     \E r \in RefSearch(0, num_elements - 1) : r.found = found

\* C9: a probe read that fails or is short never aborts the search; the
\* reads failing only finitely often (at most MaxFail times), the search
\* ends, with the same found / not found as the search without failed reads.
C9_ReadFailureRecoverable ==
  [][C9_NoAbort]_vars /\ []C9_SameResult /\ Terminates

\* C9 witness: a search with a failed probe read ended with a hit
C9_Witness ==
  pc = "done" /\ failures >= 1 /\ term = "FOUND" /\ bytes_read = UNINIT

\* the device was asked for polling and gave standard mode, or was asked for
\* registered buffers and refused them
Degraded ==
  \/ use_sqpoll = 1 /\ sqpoll_enabled = 0
  \/ use_buffers = 1 /\ buf_regs = 0

\* initialisation of the device and registration of the buffers
C10_InitStep ==
  /\ pc = "ring_init" =>
       /\ ring_calls'[1].sqpoll = (use_sqpoll = 1)
       /\ (use_sqpoll = 1 /\ ~ring_calls'[1].ok) =>
            /\ Len(ring_calls') = 2
            /\ ~ring_calls'[2].sqpoll
            /\ sqpoll_enabled' = 0
            /\ IF ring_calls'[2].ok
               THEN pc' = "register" /\ ring_inits' = 1 /\ term' = "none"
               ELSE pc' = "done" /\ ring_inits' = 0 /\ term' = "IO_ERROR"
  /\ pc = "register" =>
       /\ pc' = "loop" /\ term' = "none"
       /\ buffers_registered' = 1 <=> buf_regs' = 1

\* without registered buffers no fixed read and no unregistration; the
\* degraded search ends like the search that is not degraded
C10_State ==
  /\ buf_regs = 0 =>
       /\ buffers_registered = 0
       /\ buf_unregs = 0
       /\ \A k \in 1..Len(sq) : ~sq[k].fixed
  /\ (CleanRun /\ Degraded) =>
       [found |-> found, target_offset |-> target_offset]
          \in RefSearch(0, num_elements - 1)

\* C10: a failed polling initialisation falls back to standard mode with
\* sqpoll_enabled = 0 and aborts only if that fails too; a failed buffer
\* registration leaves buffers_registered = 0, only non-fixed reads and no
\* unregistration; found and target_offset are those of the search that is
\* not degraded.
C10_DegradedModes == [][C10_InitStep]_vars /\ []C10_State

\* C10 witness: polling and registration both failed and the target was found
C10_Witness ==
  /\ CleanRun /\ found = 1
  /\ use_sqpoll = 1 /\ sqpoll_enabled = 0 /\ Len(ring_calls) = 2
  /\ use_buffers = 1 /\ buf_regs = 0
  /\ total_reads > PARALLEL_READS

(* ---------------- rounds and probes ---------------- *)
\* floor(log2(n)) for n >= 1
RECURSIVE Log2(_)
Log2(n) == IF n <= 1 THEN 0 ELSE 1 + Log2(n \div 2)

\* C11: with no failed reads a search over N elements prepares probes in at
\* most floor(log2(N)) + 1 iterations of the loop; at most one iteration is a
\* linear scan, and no iteration follows it.
C11_RoundBound ==
  /\ (failures = 0 /\ rounds > 0) => rounds <= Log2(num_elements) + 1
  /\ scans <= 1
  /\ scans = 1 => pc \in {"cleanup", "done"}

\* C11 witness: a search of a large file without failed reads ended with a
\* linear scan after two rounds or more
C11_Witness ==
  /\ pc = "done" /\ failures = 0
  /\ rounds >= 2 /\ scans = 1
  /\ num_elements > PARALLEL_READS * ParallelRangeFactor

\* C12 as stated: every probe index of a round lies strictly between lo and
\* hi, for every interval on which a round runs.
C12_StrictlyInside ==
  pc = "submit" =>
     \A k \in 1..Len(sq) : lo < sq[k].offset \div 8 /\ sq[k].offset \div 8 < hi

\* C12 amended: every probe index p of a round lies in [lo, hi]; it lies
\* strictly between lo and hi when hi - lo >= 2, and it is hi when hi - lo is
\* 0 or 1.
C12_InsideOrAtHi ==
  pc = "submit" =>
     \A k \in 1..Len(sq) :
        LET p == sq[k].offset \div 8
        IN /\ lo <= p /\ p <= hi
           /\ hi - lo >= 2 => (lo < p /\ p < hi)
           /\ hi - lo <= 1 => p = hi

\* C12 witness: a round over an interval of two elements probes hi
C12_Witness ==
  /\ pc = "submit" /\ hi - lo = 1 /\ Len(sq) = 1 /\ sq[1].offset = 8 * hi

\* C13: a round issues PARALLEL_READS probes when hi - lo > 4*100 and one
\* probe otherwise; probe i (from 0) reads element min(hi, lo + step*(i+1))
\* with step = max(1, (hi - lo) div (active + 1)); four probes have pairwise
\* distinct, strictly increasing indices.
C13_ProbeSchedule ==
  pc = "submit" =>
     LET range == hi - lo
         n == IF range > 4 * 100 THEN PARALLEL_READS ELSE 1
         q == range \div (n + 1)
         step == IF q < 1 THEN 1 ELSE q
         Pos(i) == IF lo + step * (i + 1) < hi THEN lo + step * (i + 1) ELSE hi
     IN /\ active_reads = n
        /\ Len(sq) = n
        /\ \A i \in 0..(n - 1) :
             /\ sq[i + 1].slot = i
             /\ sq[i + 1].offset = 8 * Pos(i)
             /\ reads[i].offset = 8 * Pos(i)
        /\ \A i, j \in 0..(n - 1) : i < j => sq[i + 1].offset < sq[j + 1].offset

\* C13 witness: four probes at increasing indices are prepared for the whole
\* of a large file
C13_Witness ==
  /\ pc = "submit" /\ lo = 0 /\ hi - lo > PARALLEL_READS * ParallelRangeFactor
  /\ Len(sq) = PARALLEL_READS
  /\ sq[1].offset < sq[2].offset /\ sq[3].offset < sq[4].offset

(* ---------------- narrowing and completions ---------------- *)
SetMax(S) == CHOOSE x \in S : \A y \in S : y <= x
SetMin(S) == CHOOSE x \in S : \A y \in S : x <= y

\* C14: after a round without a hit, new_lo is the maximum of lo and of p+1
\* over the valid probes p with a value below the target, and new_hi is the
\* minimum of hi and of p-1 over the valid probes with a value above it.
C14_Intersection ==
  [][(pc = "reap" /\ pc' = "loop") =>
       LET valid == {i \in 0..(active_reads - 1) : reads'[i].valid = 1}
           below == {reads'[i].offset \div 8 + 1 :
                       i \in {j \in valid : reads'[j].value < target}}
           above == {reads'[i].offset \div 8 - 1 :
                       i \in {j \in valid : reads'[j].value > target}}
       IN /\ lo' = SetMax({lo} \cup below)
          /\ hi' = SetMin({hi} \cup above)]_vars

\* C14 witness: the round of four probes of a large file moved both lo and hi
C14_Witness ==
  /\ pc = "loop" /\ rounds = 1 /\ total_reads = PARALLEL_READS
  /\ lo > 0 /\ hi < num_elements - 1 /\ lo <= hi

\* C15: the offset reported by a round of probes is the offset of the first
\* completion of the round whose value is the target; no later completion of
\* the round changes it.
C15_FirstHitWins ==
  (pc \in {"cleanup", "done"} /\ term = "FOUND" /\ scans = 0) =>
     target_offset = first_hit

\* slots of the round whose completion delivered 8 bytes, and the others
GoodSlots == {cq[k].slot : k \in {n \in 1..Len(cq) : cq[n].res = 8}}
BadSlots == {cq[k].slot : k \in {n \in 1..Len(cq) : cq[n].res # 8}}

\* C16: a probe whose completion is not exactly 8 bytes is invalid for its
\* round: it never moves lo or hi and never gives a hit, whatever its buffer
\* holds; only slots scheduled in the round are marked or used.
C16_InvalidIgnored ==
  [][pc = "reap" =>
       /\ GoodSlots \cup BadSlots \subseteq 0..(active_reads - 1)
       /\ \A i \in BadSlots : reads'[i].valid = 0
       /\ \A i \in Slots \ (0..(active_reads - 1)) : reads'[i] = reads[i]
       /\ found' = 1 =>
            \E i \in GoodSlots :
               reads[i].value = target /\ target_offset' = reads[i].offset
       /\ lo' # lo =>
            \E i \in GoodSlots :
               reads[i].value < target /\ lo' = reads[i].offset \div 8 + 1
       /\ hi' # hi =>
            \E i \in GoodSlots :
               reads[i].value > target /\ hi' = reads[i].offset \div 8 - 1]_vars

\* C16 witness: after a round the slot of a short read holds the target in
\* its buffer, is invalid, and no hit was recorded
C16_Witness ==
  /\ pc = "loop" /\ rounds >= 2 /\ found = 0
  /\ reads[0].valid = 0 /\ reads[0].value = target

\* nothing is prepared or completed between two rounds; the prepared reads
\* are those of the slots of the round, the completions are theirs
C17_State ==
  /\ pc = "loop" => (sq = <<>> /\ cq = <<>>)
  /\ pc = "submit" =>
       /\ cq = <<>>
       /\ Len(sq) = active_reads
       /\ \A k \in 1..Len(sq) :
            sq[k].slot = k - 1 /\ sq[k].offset = reads[k - 1].offset
  /\ pc = "reap" =>
       /\ sq = <<>>
       /\ Len(cq) = active_reads
       /\ {cq[k].slot : k \in 1..Len(cq)} = 0..(active_reads - 1)

\* a slot is given a new offset only when nothing is outstanding, its buffer
\* changes only while its read is executed, a round consumes all completions
C17_Step ==
  /\ \A i \in Slots :
       /\ reads'[i].offset # reads[i].offset => (sq = <<>> /\ cq = <<>>)
       /\ reads'[i].value # reads[i].value =>
            (pc = "submit" /\ \E k \in 1..Len(sq) : sq[k].slot = i)
  /\ pc = "reap" => cq' = <<>>

\* C17: when the probes of a round are scheduled no read of an earlier round
\* is in flight and no completion is unconsumed; the completions consumed in
\* a round are those of the probes of that round; the offset and the buffer
\* of a slot are not rewritten while a read into the slot is outstanding.
C17_RoundsNeverOverlap == []C17_State /\ [][C17_Step]_vars

\* C17 witness: the second round is prepared after the four completions of
\* the first were consumed
C17_Witness ==
  /\ pc = "submit" /\ rounds = 2 /\ total_reads = PARALLEL_READS + 1
  /\ cq = <<>> /\ Len(sq) = 1

\* C18: the valid flags, whether a hit is recorded and the new interval of
\* a round are functions of the set of (slot, result) pairs of its
\* completions, whatever the order of their delivery; a completion marks the
\* slot its user data names.
C18_OrderIndependent ==
  [][pc = "reap" =>
       LET below == {reads[i].offset \div 8 + 1 :
                       i \in {j \in GoodSlots : reads[j].value < target}}
           above == {reads[i].offset \div 8 - 1 :
                       i \in {j \in GoodSlots : reads[j].value > target}}
           hit == \E i \in GoodSlots : reads[i].value = target
       IN /\ \A i \in 0..(active_reads - 1) :
               reads'[i].valid = IF i \in GoodSlots THEN 1 ELSE 0
          /\ found' = IF hit THEN 1 ELSE 0
          /\ IF hit THEN pc' = "cleanup" /\ lo' = lo /\ hi' = hi
             ELSE /\ pc' = "loop"
                  /\ lo' = SetMax({lo} \cup below)
                  /\ hi' = SetMin({hi} \cup above)]_vars

\* C18 witness: the completions of a round of four probes were handled in
\* another order than the probes were submitted (the first hit handled lies
\* behind the last one)
C18_Witness ==
  /\ pc = "cleanup" /\ term = "FOUND" /\ rounds = 1
  /\ total_reads = PARALLEL_READS
  /\ first_hit > target_offset

(* ---------------- the linear scan ---------------- *)
\* C19: a linear scan runs only when use_readahead is set and hi - lo is
\* strictly below LINEAR_SEARCH_THRESHOLD, probes are prepared only
\* otherwise, and with a threshold of 0 no linear scan runs.
C19_ScanBelowThreshold ==
  /\ scans > 0 => (use_readahead = 1 /\ hi - lo < LINEAR_SEARCH_THRESHOLD)
  /\ pc = "submit" => ~(use_readahead = 1 /\ hi - lo < LINEAR_SEARCH_THRESHOLD)
  /\ LINEAR_SEARCH_THRESHOLD = 0 => scans = 0

\* C20: a linear scan whose pread returned all hi - lo + 1 elements ends the
\* search without another probe: found with the offset of the lowest index
\* of [lo, hi] holding the target, or not found when there is none.
C20_ScanResult ==
  (scans = 1 /\ bytes_read = 8 * (hi - lo + 1)) =>
     LET hits == {i \in lo..hi : array(i) = target}
     IN /\ pc \in {"cleanup", "done"}
        /\ sq = <<>> /\ cq = <<>>
        /\ IF hits = {}
           THEN found = 0 /\ term = "NOT_FOUND"
           ELSE found = 1 /\ term = "FOUND" /\ target_offset = 8 * SetMin(hits)
        /\ pc = "done" => retval = ReturnCode(found)

\* C20 witness: a search ended by a complete linear scan that found the
\* target after rounds of probes
C20_Witness ==
  /\ pc = "done" /\ scans = 1 /\ rounds >= 1
  /\ bytes_read = 8 * (hi - lo + 1) /\ found = 1

\* C21: a hit of the linear scan lies within the bytes its pread returned:
\* when the pread returns fewer bytes than requested, no position beyond
\* them is reported as a match.
C21_ScanWithinRead ==
  (scans = 1 /\ term = "FOUND") =>
     /\ target_offset >= 8 * lo
     /\ target_offset - 8 * lo + 8 <= bytes_read

\* C22: a round that schedules probes issues the prefetch hint exactly when
\* use_readahead is set and hi - lo is below READAHEAD_THRESHOLD, before the
\* probes are scheduled; the hint leaves lo, hi, found, the number of probes
\* and their positions as they are without it and does not end the search.
C22_HintWhenBelow ==
  [][(pc = "loop" /\ pc' = "submit") =>
       /\ readahead_issued' <=>
            (use_readahead = 1 /\ hi - lo < READAHEAD_THRESHOLD)
       /\ lo' = lo /\ hi' = hi /\ found' = found /\ term' = "none"
       /\ active_reads' = ActiveReads(hi - lo)
       /\ Len(sq') = ActiveReads(hi - lo)
       /\ \A k \in 1..Len(sq') : sq'[k].offset = 8 * IndexPos(lo, hi, k - 1)]_vars

(* ---------------- validation and the submission queue ---------------- *)
\* C23: a file whose length is no multiple of 8, or that holds no element,
\* ends the search at the validation with the error outcome: no device is
\* initialised, no probe is prepared, no round runs, the file is closed.
C23_InvalidFileRejected ==
  (pc \notin {"open", "validate"} /\ fd_opens = 1
     /\ (st_size % 8 # 0 \/ st_size \div 8 = 0)) =>
     /\ pc = "done" /\ term = "IO_ERROR" /\ retval = -1
     /\ ring_calls = <<>> /\ ring_inits = 0 /\ buf_regs = 0
     /\ rounds = 0 /\ scans = 0 /\ total_reads = 0
     /\ sq = <<>> /\ cq = <<>>
     /\ fd_closes = 1

\* C23 witness: a file of 12 bytes was rejected and closed
C23_Witness ==
  /\ pc = "done" /\ st_size = 12 /\ fd_opens = 1 /\ fd_closes = 1
  /\ term = "IO_ERROR"

\* at most PARALLEL_READS requests are prepared or completed and not yet
\* consumed, fewer than the queue holds, and none when a round starts
C24_State ==
  /\ Len(sq) + Len(cq) <= PARALLEL_READS
  /\ Len(sq) + Len(cq) < QUEUE_DEPTH
  /\ pc = "loop" => (sq = <<>> /\ cq = <<>>)

\* the only abort taken while a round is being prepared is that of the
\* linear scan: io_uring_get_sqe does not fail
C24_Step ==
  (pc = "loop" /\ term' = "IO_ERROR") => scans' = scans + 1

\* C24: at every point at most PARALLEL_READS (4) read requests are prepared
\* or in flight, below the queue depth of 64, and none at the start of a
\* round; acquiring a submission entry never fails, the "Could not get SQE"
\* abort is not taken.
C24_QueueNeverFull == []C24_State /\ [][C24_Step]_vars

\* C24 witness: the four completions of a round are in the completion queue
C24_Witness ==
  /\ pc = "reap" /\ Len(cq) = PARALLEL_READS /\ sq = <<>> /\ failures = 0

(* ================= the mmap searches ================= *)
(* binary_search_uint64_mmap (src/mmap_search.c) and                       *)
(* parallel_binary_search_uint64_mmap with its binary_search_thread        *)
(* (src/parallel_mmap_search.c).  The counters of comparisons are only     *)
(* printed and are left out.                                               *)

\* size_t and uint64_t values
Word == 2 ^ WordBits

\* the outcome of a read that faults: the process is killed
SIGSEGV == -11

MmapSizes == {8 * n : n \in SmallSizes} \cup {4, 12}
MMAP == "binary_search_uint64_mmap"
PARALLEL == "parallel_binary_search_uint64_mmap"

MmapInit ==
  /\ FileInit(MmapSizes)
  /\ use_sqpoll = 0 /\ use_buffers = 0 /\ use_readahead = 0
  /\ IoInit
  /\ fn \in {MMAP, PARALLEL}
  /\ num_threads \in IF fn = PARALLEL THEN 1..MaxThreads ELSE {0}
  /\ MmInit
  /\ GenInit(0, 0)

\* size_t mid = lo + (hi - lo) / 2
Mid(l, h) == (l + (((h - l) % Word) \div 2)) % Word

\* what reading data[idx] can give: the element, or, outside the mapping or
\* after munmap, a fault or whatever the address holds
DataRead(idx) ==
  IF mapped /\ idx < st_size \div 8 THEN {array(idx)}
  ELSE Values \cup {SIGSEGV}

\* lines 75-85 (mmap_search.c), 41-49 (parallel_mmap_search.c): the searcher
\* t after comparing the value v read at its mid
AfterCompare(t, v) ==
  LET mid == Mid(t.lo, t.hi)
  IN IF v = target THEN [t EXCEPT !.mid = mid, !.pc = "exited"]
     ELSE IF v < target THEN [t EXCEPT !.mid = mid, !.lo = (mid + 1) % Word]
     ELSE [t EXCEPT !.mid = mid, !.hi = (mid - 1) % Word]

\* mmap_search.c 29-69: open, fstat, the checks of the size, mmap, lo and hi
MmapOpen ==
  /\ fn = MMAP /\ mpc = "open" /\ ~crashed
  /\ \E ok \in BOOLEAN :
       IF ok /\ Aligned(st_size) /\ st_size \div 8 # 0
       THEN /\ mapped' = TRUE
            /\ thr' = [i \in {0} |-> [pc |-> "loop", lo |-> 0,
                                       hi |-> ((st_size \div 8) - 1) % Word,
                                       mid |-> UNINIT]]
            /\ mpc' = "search"
            /\ UNCHANGED m_retval
       ELSE /\ m_retval' = -1
            /\ mpc' = "done"
            /\ UNCHANGED <<mapped, thr>>
  /\ UNCHANGED <<iovars, fn, gen, num_threads, created, joined, thread_data,
                 freed, crashed, m_found, m_target_offset>>

\* mmap_search.c 71-86: one test of the loop guard and one iteration
MmapIter ==
  /\ fn = MMAP /\ mpc = "search" /\ ~crashed
  /\ LET t == thr[0]
     IN IF t.lo <= t.hi
        THEN \E v \in DataRead(Mid(t.lo, t.hi)) :
               IF v = SIGSEGV
               THEN /\ crashed' = TRUE
                    /\ thr' = [thr EXCEPT ![0].mid = Mid(t.lo, t.hi)]
                    /\ UNCHANGED <<mpc, m_found, m_target_offset>>
               ELSE /\ thr' = [thr EXCEPT ![0] = AfterCompare(t, v)]
                    /\ IF v = target
                       THEN /\ m_found' = 1
                            /\ m_target_offset' = Mid(t.lo, t.hi) * 8
                            /\ mpc' = "finish"
                       ELSE UNCHANGED <<mpc, m_found, m_target_offset>>
                    /\ UNCHANGED crashed
        ELSE /\ mpc' = "finish"
             /\ thr' = [thr EXCEPT ![0].pc = "exited"]
             /\ UNCHANGED <<crashed, m_found, m_target_offset>>
  /\ UNCHANGED <<iovars, fn, gen, num_threads, created, joined, thread_data,
                 mapped, freed, m_retval>>

\* mmap_search.c 88-108: munmap, close, return 0
MmapFinish ==
  /\ fn = MMAP /\ mpc = "finish" /\ ~crashed
  /\ mapped' = FALSE
  /\ m_retval' = 0
  /\ mpc' = "done"
  /\ UNCHANGED <<iovars, fn, gen, num_threads, created, joined, thread_data,
                 thr, freed, crashed, m_found, m_target_offset>>

\* parallel_mmap_search.c 72-139: open, fstat, the checks of the size, mmap,
\* madvise, the cap of num_threads, the two malloc
ParSetup ==
  /\ fn = PARALLEL /\ mpc = "open" /\ ~crashed
  /\ \E ok \in BOOLEAN :
       IF ok /\ Aligned(st_size) /\ st_size \div 8 # 0
       THEN LET n == IF st_size \div 8 < num_threads THEN st_size \div 8
                     ELSE num_threads
            IN /\ num_threads' = n
               /\ mapped' = TRUE
               /\ thread_data' = [i \in 0..(n - 1) |->
                                    [start_idx |-> UNINIT, end_idx |-> UNINIT,
                                     found |-> UNINIT, found_idx |-> UNINIT]]
               /\ thr' = [i \in 0..(n - 1) |->
                            [pc |-> "none", lo |-> UNINIT, hi |-> UNINIT,
                             mid |-> UNINIT]]
               /\ mpc' = "create"
               /\ UNCHANGED m_retval
       ELSE /\ m_retval' = -1
            /\ mpc' = "done"
            /\ UNCHANGED <<num_threads, mapped, thread_data, thr>>
  /\ UNCHANGED <<iovars, fn, gen, created, joined, freed, crashed, m_found,
                 m_target_offset>>

\* parallel_mmap_search.c 138-153: the range of thread i of n threads
ThreadRange(i, n) ==
  LET elements_per_thread == (st_size \div 8) \div n
      remainder == (st_size \div 8) % n
  IN [start_idx |-> (i * elements_per_thread) % Word,
      end_idx |-> (((i + 1) * elements_per_thread - 1)
                     + (IF i = n - 1 THEN remainder ELSE 0)) % Word]

\* parallel_mmap_search.c 142-164: one iteration of the loop that creates
\* the threads; when pthread_create fails the mapping and the arrays are
\* released and the function returns
ParCreate ==
  /\ fn = PARALLEL /\ mpc = "create" /\ ~crashed
  /\ created < num_threads
  /\ LET i == created
         r == ThreadRange(i, num_threads)
     IN \E ok \in BOOLEAN :
          /\ thread_data' = [thread_data EXCEPT ![i].start_idx = r.start_idx,
                                                ![i].end_idx = r.end_idx]
          /\ IF ok
             THEN /\ thr' = [thr EXCEPT ![i].pc = "start"]
                  /\ created' = i + 1
                  /\ mpc' = IF i + 1 < num_threads THEN "create" ELSE "join"
                  /\ UNCHANGED <<mapped, freed, m_retval>>
             ELSE /\ mapped' = FALSE
                  /\ freed' = TRUE
                  /\ m_retval' = -1
                  /\ mpc' = "done"
                  /\ UNCHANGED <<thr, created>>
  /\ UNCHANGED <<iovars, fn, gen, num_threads, joined, crashed, m_found,
                 m_target_offset>>

\* parallel_mmap_search.c 28-35: the thread takes its range from its
\* thread_data; a use of the array after free(thread_data) can fault
ThreadStart(i) ==
  /\ fn = PARALLEL /\ ~crashed
  /\ i \in DOMAIN thr /\ thr[i].pc = "start"
  /\ \E fault \in IF freed THEN BOOLEAN ELSE {FALSE} :
       IF fault
       THEN crashed' = TRUE /\ UNCHANGED <<thr, thread_data>>
       ELSE /\ thr' = [thr EXCEPT ![i] = [pc |-> "loop",
                                           lo |-> thread_data[i].start_idx,
                                           hi |-> thread_data[i].end_idx,
                                           mid |-> UNINIT]]
            /\ thread_data' = [thread_data EXCEPT ![i].found = 0]
            /\ UNCHANGED crashed
  /\ UNCHANGED <<iovars, fn, gen, mpc, num_threads, created, joined, mapped,
                 freed, m_found, m_target_offset, m_retval>>

\* parallel_mmap_search.c 37-52: one test of the loop guard and one
\* iteration, pthread_exit at the end of the loop
ThreadIter(i) ==
  /\ fn = PARALLEL /\ ~crashed
  /\ i \in DOMAIN thr /\ thr[i].pc = "loop"
  /\ LET t == thr[i]
     IN IF t.lo <= t.hi
        THEN \E v \in DataRead(Mid(t.lo, t.hi)) :
               IF v = SIGSEGV
               THEN /\ crashed' = TRUE
                    /\ thr' = [thr EXCEPT ![i].mid = Mid(t.lo, t.hi)]
                    /\ UNCHANGED thread_data
               ELSE /\ thr' = [thr EXCEPT ![i] = AfterCompare(t, v)]
                    /\ thread_data' =
                         IF v = target
                         THEN [thread_data EXCEPT ![i].found = 1,
                                                  ![i].found_idx = Mid(t.lo, t.hi)]
                         ELSE thread_data
                    /\ UNCHANGED crashed
        ELSE /\ thr' = [thr EXCEPT ![i].pc = "exited"]
             /\ UNCHANGED <<thread_data, crashed>>
  /\ UNCHANGED <<iovars, fn, gen, mpc, num_threads, created, joined, mapped,
                 freed, m_found, m_target_offset, m_retval>>

\* parallel_mmap_search.c 167-176: pthread_join of the next thread and the
\* use of its result
ParJoin ==
  /\ fn = PARALLEL /\ mpc = "join" /\ ~crashed
  /\ joined < num_threads
  /\ thr[joined].pc = "exited"
  /\ IF thread_data[joined].found = 1
     THEN /\ m_found' = 1
          /\ m_target_offset' = thread_data[joined].found_idx * 8
     ELSE UNCHANGED <<m_found, m_target_offset>>
  /\ joined' = joined + 1
  /\ mpc' = IF joined + 1 < num_threads THEN "join" ELSE "finish"
  /\ UNCHANGED <<iovars, fn, gen, num_threads, created, thread_data, thr,
                 mapped, freed, crashed, m_retval>>

\* parallel_mmap_search.c 178-200: free, munmap, close, return 0
ParFinish ==
  /\ fn = PARALLEL /\ mpc = "finish" /\ ~crashed
  /\ freed' = TRUE
  /\ mapped' = FALSE
  /\ m_retval' = 0
  /\ mpc' = "done"
  /\ UNCHANGED <<iovars, fn, gen, num_threads, created, joined, thread_data,
                 thr, crashed, m_found, m_target_offset>>

MmapNext ==
  \/ MmapOpen
  \/ MmapIter
  \/ MmapFinish
  \/ ParSetup
  \/ ParCreate
  \/ \E i \in 0..(MaxThreads - 1) : ThreadStart(i)
  \/ \E i \in 0..(MaxThreads - 1) : ThreadIter(i)
  \/ ParJoin
  \/ ParFinish

MmapSpec == MmapInit /\ [][MmapNext]_vars

\* the initial bounds of searcher i
FirstIdx(i) == IF fn = MMAP THEN 0 ELSE thread_data[i].start_idx
LastIdx(i) == IF fn = MMAP THEN (st_size \div 8) - 1 ELSE thread_data[i].end_idx

\* every index read lies within the initial bounds of its search
C25_State ==
  \A i \in DOMAIN thr :
     thr[i].mid # UNINIT => (FirstIdx(i) <= thr[i].mid /\ thr[i].mid <= LastIdx(i))

\* an iteration never lowers lo nor raises hi, and the interval of the next
\* iteration is narrower
C25_Step ==
  \A i \in DOMAIN thr :
     (thr[i].pc = "loop" /\ thr'[i] # thr[i]) =>
        /\ thr'[i].lo >= thr[i].lo
        /\ thr'[i].hi <= thr[i].hi
        /\ thr'[i].pc = "loop" => thr'[i].hi - thr'[i].lo < thr[i].hi - thr[i].lo

\* C25: in binary_search_uint64_mmap and in binary_search_thread every index
\* mid read lies within the initial bounds of the search and every iteration
\* narrows the interval, so that the loop ends, for every sorted array and
\* every target: hi = mid - 1 never wraps around.
C25_SearchInBounds == []C25_State /\ [][C25_Step]_vars

\* C26: when the mapping is unmapped and the arrays are freed, no thread
\* that was created is still running.
C26_NoThreadAtRelease ==
  (fn = PARALLEL /\ (freed \/ (~mapped /\ mpc = "done"))) =>
     \A i \in DOMAIN thr : thr[i].pc \in {"none", "exited"}

\* the ranges of the threads are non-empty, pairwise disjoint and cover
\* 0..N-1
C27_Ranges ==
  (fn = PARALLEL /\ num_threads > 0 /\ created = num_threads
     /\ mpc \in {"join", "finish", "done"}) =>
     LET R(i) == thread_data[i].start_idx..thread_data[i].end_idx
         T == 0..(num_threads - 1)
     IN /\ num_threads <= st_size \div 8
        /\ \A i \in T : R(i) # {}
        /\ \A i, j \in T : i # j => R(i) \cap R(j) = {}
        /\ UNION {R(i) : i \in T} = 0..((st_size \div 8) - 1)

\* after all joins found is set exactly when the target is in the array
C27_FoundIff ==
  (fn = PARALLEL /\ mpc \in {"finish", "done"} /\ joined = num_threads
     /\ num_threads > 0) =>
     (m_found = 1 <=> TargetPresent)

\* C27: after the cap of num_threads the ranges of the threads are
\* non-empty, pairwise disjoint and their union is 0..N-1; hence found is
\* set after all joins if and only if the target occurs in the array.
C27_RangesAndResult == C27_Ranges /\ C27_FoundIff

(* ================= create_test_file ================= *)
CREATE == "create_test_file"

GenSizes == 0..MaxGenElements
GenSteps == 0..(Word - 1)

GenStart ==
  /\ FileInit({0})
  /\ use_sqpoll = 0 /\ use_buffers = 0 /\ use_readahead = 0
  /\ IoInit
  /\ fn = CREATE
  /\ num_threads = 0
  /\ MmInit
  /\ \E n \in GenSizes, st \in GenSteps : GenInit(n, st)

\* common.c 25: uint64_t value = i * step
GenValue(i, st) == (i * st) % Word

\* common.c 16-20: fopen
GenOpen ==
  /\ fn = CREATE /\ gen.pc = "fopen"
  /\ \E ok \in BOOLEAN :
       gen' = IF ok THEN [gen EXCEPT !.pc = "loop"]
              ELSE [gen EXCEPT !.pc = "done", !.ret = -1]
  /\ UNCHANGED <<iovars, fn, mmvars>>

\* common.c 24-31: one iteration of the loop, fwrite of one value
GenWrite ==
  /\ fn = CREATE /\ gen.pc = "loop"
  /\ gen.i < gen.num_elements
  /\ \E ok \in BOOLEAN :
       gen' = IF ok
              THEN [gen EXCEPT !.file = Append(@, GenValue(gen.i, gen.step)),
                               !.i = (@ + 1) % Word]
              ELSE [gen EXCEPT !.pc = "done", !.ret = -1]
  /\ UNCHANGED <<iovars, fn, mmvars>>

\* common.c 24, 33-35: the loop ends, fclose, return 0
GenClose ==
  /\ fn = CREATE /\ gen.pc = "loop"
  /\ ~(gen.i < gen.num_elements)
  /\ gen' = [gen EXCEPT !.pc = "done", !.ret = 0]
  /\ UNCHANGED <<iovars, fn, mmvars>>

GenNext ==
  \/ GenOpen
  \/ GenWrite
  \/ GenClose

GenSpec == GenStart /\ [][GenNext]_vars

\* C28: create_test_file writes exactly num_elements values, the i-th being
\* i*step in unsigned arithmetic of the width of uint64_t, and the sequence
\* written is non-decreasing for every num_elements and every step.
C28_SortedFile ==
  (fn = CREATE /\ gen.pc = "done" /\ gen.ret = 0) =>
     /\ Len(gen.file) = gen.num_elements
     /\ \A k \in 1..Len(gen.file) : gen.file[k] = ((k - 1) * gen.step) % Word
     /\ \A k \in 1..(Len(gen.file) - 1) : gen.file[k] <= gen.file[k + 1]

====
